---- MODULE Spec2Model ----
(***************************************************************************)
(* Model of the shapdf PDF generator: the document assembler               *)
(* (src/src/generator.rs) and the drawing-operator compiler with its       *)
(* process-wide default style (src/src/shapes.rs).                         *)
(*                                                                         *)
(* Byte buffers (Vec<u8>, String) are TLA+ strings: Len is the byte        *)
(* length, \o is extend/push_str, SubSeq reads a byte range.  An f64 is a  *)
(* fixed-point integer counting tenths (25 is 2.5); every value the model  *)
(* feeds in is a multiple of 0.1 and the arithmetic applied to it          *)
(* (doubling, halving an even number, multiplying by 72) is exact in f64.  *)
(* Option<T> is a sequence: <<>> is None, <<v>> is Some(v).                *)
(***************************************************************************)
EXTENDS Integers, Sequences, FiniteSets, TLC

(***************************************************************************)
(* Bounds of the exploration.                                              *)
(***************************************************************************)
\* page-adding and shape-adding calls on one generator
MaxOps == 3
\* Shape::draw calls on the shapes of one generator
MaxDraws == 1
\* write_pdf calls on one generator
MaxWrites == 2
\* set_default_* calls in the process
MaxDefaults == 2
\* generators constructed in the process
MaxDocs == 2

(***************************************************************************)
(* Text formatting, as format!() does it.                                  *)
(***************************************************************************)
Digit(d) == SubSeq("0123456789", d + 1, d + 1)

RECURSIVE Dec(_)
\* format!("{}", n) for an unsigned integer
Dec(n) == IF n < 10 THEN Digit(n) ELSE Dec(n \div 10) \o Digit(n % 10)

RECURSIVE Zeros(_)
Zeros(k) == IF k <= 0 THEN "" ELSE "0" \o Zeros(k - 1)

\* format!("{:010}", n): zero-padded to at least ten digits, never truncated
Pad10(n) == Zeros(10 - Len(Dec(n))) \o Dec(n)

\* format!("{}", v) for an f64 v given in tenths: shortest decimal text
FmtAbs(a) == Dec(a \div 10) \o (IF a % 10 = 0 THEN "" ELSE "." \o Digit(a % 10))
Fmt(v) == IF v < 0 THEN "-" \o FmtAbs(0 - v) ELSE FmtAbs(v)

\* format!("{}", -v): the negation of +0.0 is -0.0, which prints as "-0"
FmtNeg(v) == IF v = 0 THEN "-0" ELSE Fmt(0 - v)

RECURSIVE TrimEnd(_)
TrimEnd(s) ==
    IF Len(s) > 0 /\ SubSeq(s, Len(s), Len(s)) = " "
    THEN TrimEnd(SubSeq(s, 1, Len(s) - 1)) ELSE s

RECURSIVE TrimStart(_)
TrimStart(s) ==
    IF Len(s) > 0 /\ SubSeq(s, 1, 1) = " "
    THEN TrimStart(SubSeq(s, 2, Len(s))) ELSE s

\* str::trim
trim(s) == TrimStart(TrimEnd(s))

(***************************************************************************)
(* Units (src/src/units.rs).  Lengths are carried in points.               *)
(***************************************************************************)
Pt(v) == v
Inch(v) == v * 72

\* Mm(210.0).to_points() and Mm(297.0).to_points(): 210.0 * 2.83464566929
\* and 297.0 * 2.83464566929 as f64, in their shortest decimal text
A4WidthText == "595.2755905509"
A4HeightText == "841.88976377913"

N_OBJ_RESERVED == 2

CapTypes == {"Butt", "Round", "Square"}

to_int(cap) == CASE cap = "Butt" -> 0 [] cap = "Round" -> 1 [] cap = "Square" -> 2

None == <<>>
Some(v) == <<v>>
unwrap(o) == o[1]
unwrap_or(o, d) == IF o = None THEN d ELSE o[1]

(***************************************************************************)
(* State.                                                                  *)
(***************************************************************************)
VARIABLES
    pdf,              \* Generator.pdf
    pdf_pre,          \* Generator.pdf_pre
    offsets,          \* Generator.offsets
    pre_offset,       \* Generator.pre_offset
    content_stream,   \* Generator.content_stream
    pages,            \* Generator.pages
    file,             \* bytes of the file written by write_pdf
    DEFAULT_WIDTH,    \* static DEFAULT_WIDTH
    DEFAULT_CAP_TYPE, \* static DEFAULT_CAP_TYPE
    DEFAULT_COLOR,    \* static DEFAULT_COLOR
    pageLog,          \* history: one entry per page-adding call
    drawLog,          \* history: one entry per draw call
    writeLog,         \* history: one entry per write_pdf call
    ndefaults,        \* history: number of set_default_* calls in the process
    lastSet,          \* history: per style field, the value of the latest set_default_*
    doc,              \* history: number of generators constructed so far
    docSet            \* history: as lastSet, but only since this generator was made

gen_vars == <<pdf, pdf_pre, offsets, pre_offset, content_stream, pages>>
static_vars == <<DEFAULT_WIDTH, DEFAULT_CAP_TYPE, DEFAULT_COLOR>>
hist_vars == <<pageLog, drawLog, writeLog, ndefaults, lastSet, doc, docSet>>
vars == <<gen_vars, file, static_vars, hist_vars>>

Self == [pdf |-> pdf, pdf_pre |-> pdf_pre, offsets |-> offsets,
         pre_offset |-> pre_offset, content_stream |-> content_stream,
         pages |-> pages]

Assign(g) ==
    /\ pdf' = g.pdf
    /\ pdf_pre' = g.pdf_pre
    /\ offsets' = g.offsets
    /\ pre_offset' = g.pre_offset
    /\ content_stream' = g.content_stream
    /\ pages' = g.pages

\* Generator::new
new == [pdf |-> "", pdf_pre |-> "",
        offsets |-> [i \in 1..N_OBJ_RESERVED |-> 0],
        pre_offset |-> 0, content_stream |-> "", pages |-> <<>>]

\* Lazy initialisers of the statics
BaselineWidth == Pt(10)
BaselineCapType == "Butt"
BaselineColor == <<0, 0, 0>>
DEFAULT_ANGLE == 0

Baseline == [width |-> BaselineWidth, cap_type |-> BaselineCapType,
             color |-> BaselineColor]

NeverSet == [width |-> None, cap_type |-> None, color |-> None]

Defaults == [width |-> DEFAULT_WIDTH, cap_type |-> DEFAULT_CAP_TYPE,
             color |-> DEFAULT_COLOR]

Init ==
    /\ pdf = new.pdf
    /\ pdf_pre = new.pdf_pre
    /\ offsets = new.offsets
    /\ pre_offset = new.pre_offset
    /\ content_stream = new.content_stream
    /\ pages = new.pages
    /\ file = ""
    /\ DEFAULT_WIDTH = BaselineWidth
    /\ DEFAULT_CAP_TYPE = BaselineCapType
    /\ DEFAULT_COLOR = BaselineColor
    /\ pageLog = <<>>
    /\ drawLog = <<>>
    /\ writeLog = <<>>
    /\ ndefaults = 0
    /\ lastSet = NeverSet
    /\ doc = 1
    /\ docSet = NeverSet

(***************************************************************************)
(* Document assembler (src/src/generator.rs), as functions on the          *)
(* generator record.                                                       *)
(***************************************************************************)
Framed(n, content) == Dec(n) \o " 0 obj\n" \o content \o "\nendobj\n"

add_object(g, content) ==
    LET pushed == Append(g.offsets, Len(g.pdf))
    IN  [g EXCEPT !.offsets = pushed,
                  !.pdf = g.pdf \o Framed(Len(pushed), content)]

\* n_obj is the 0-based index into offsets
add_pre_object(g, content, n_obj) ==
    LET pre == g.pdf_pre \o Framed(n_obj + 1, content)
    IN  [g EXCEPT !.offsets[n_obj + 1] = Len(g.pdf_pre),
                  !.pdf_pre = pre,
                  !.pre_offset = Len(pre)]

add_content(g) ==
    [add_object(g, "<< /Length " \o Dec(Len(g.content_stream))
                     \o " >>\nstream\n" \o g.content_stream \o "\nendstream")
        EXCEPT !.content_stream = ""]

\* add_page_with_size flushing the content stream before the first page too
AddPageAlwaysFlushing(g, wtext, htext) ==
    LET g1 == add_content(g)
        g2 == [g1 EXCEPT !.pages = Append(g1.pages, Len(g1.offsets) + 1)]
    IN  add_object(g2, "<< /Type /Page /Parent 2 0 R /MediaBox [0 0 "
                         \o wtext \o " " \o htext \o "] /Contents "
                         \o Dec(Len(g2.offsets) + 2) \o " 0 R >>")

\* wtext, htext: format!("{}", width.to_points()), format!("{}", height.to_points())
add_page_with_size(g, wtext, htext) ==
    LET g1 == IF Len(g.pages) > 0 THEN add_content(g) ELSE g
        g2 == [g1 EXCEPT !.pages = Append(g1.pages, Len(g1.offsets) + 1)]
    IN  add_object(g2, "<< /Type /Page /Parent 2 0 R /MediaBox [0 0 "
                         \o wtext \o " " \o htext \o "] /Contents "
                         \o Dec(Len(g2.offsets) + 2) \o " 0 R >>")

RECURSIVE KidsTextReversed(_)
\* KidsText listing the pages last to first
KidsTextReversed(ps) ==
    IF ps = <<>> THEN ""
    ELSE KidsTextReversed(Tail(ps)) \o Dec(Head(ps)) \o " 0 R "

RECURSIVE KidsText(_)
\* pages.iter().map(|page| format!("{} 0 R ", page)).collect::<String>()
KidsText(ps) ==
    IF ps = <<>> THEN "" ELSE Dec(Head(ps)) \o " 0 R " \o KidsText(Tail(ps))

initialize_pdf(g) ==
    LET g1 == add_content(g)
        g2 == [g1 EXCEPT !.pdf_pre = g1.pdf_pre \o "%PDF-1.5\n"]
        g3 == add_pre_object(g2, "<< /Type /Catalog /Pages 2 0 R >>", 0)
        pages_kids == trim(KidsText(g3.pages))
    IN  add_pre_object(g3, "<< /Type /Pages /Kids [" \o pages_kids
                             \o "] /Count " \o Dec(Len(g3.pages)) \o " >>", 1)

\* XrefEntry without the special case of the first page object, whose offset
\* inside pdf is 0
XrefEntryPositiveOnly(i, offset, pre) ==
    Pad10(offset + (IF i >= N_OBJ_RESERVED /\ offset > 0 THEN pre ELSE 0))
    \o " 00000 "
    \o (IF offset = 0 /\ i > N_OBJ_RESERVED THEN "f" ELSE "n")
    \o " \n"

\* XrefEntry flagging every page/content object at offset 0 of pdf as free
XrefEntryFreeAtZero(i, offset, pre) ==
    Pad10(offset + (IF i >= N_OBJ_RESERVED /\ (offset > 0 \/ i = N_OBJ_RESERVED)
                    THEN pre ELSE 0))
    \o " 00000 "
    \o (IF offset = 0 /\ i >= N_OBJ_RESERVED THEN "f" ELSE "n")
    \o " \n"

\* one offset line of the table; i is the 0-based index into offsets
XrefEntry(i, offset, pre) ==
    Pad10(offset + (IF i >= N_OBJ_RESERVED /\ (offset > 0 \/ i = N_OBJ_RESERVED)
                    THEN pre ELSE 0))
    \o " 00000 "
    \o (IF offset = 0 /\ i > N_OBJ_RESERVED THEN "f" ELSE "n")
    \o " \n"

RECURSIVE XrefEntries(_, _, _)
XrefEntries(offs, i, pre) ==
    IF i >= Len(offs) THEN ""
    ELSE XrefEntry(i, offs[i + 1], pre) \o XrefEntries(offs, i + 1, pre)

\* finalize_pdf with a trailer /Size that leaves out the free-list head
FinalizeSizeWithoutHead(g) ==
    LET xref_start == Len(g.pdf_pre) + Len(g.pdf)
    IN  [g EXCEPT !.pdf = g.pdf
            \o "xref\n"
            \o "0 " \o Dec(Len(g.offsets) + 1) \o "\n0000000000 65535 f \n"
            \o XrefEntries(g.offsets, 0, g.pre_offset)
            \o "trailer\n"
            \o "<< /Root 1 0 R /Size " \o Dec(Len(g.offsets))
            \o " >>\nstartxref\n" \o Dec(xref_start) \o "\n%%EOF\n"]

\* finalize_pdf taking the table's position inside pdf for its position in
\* the file
FinalizeXrefStartInPdf(g) ==
    LET xref_start == Len(g.pdf)
    IN  [g EXCEPT !.pdf = g.pdf
            \o "xref\n"
            \o "0 " \o Dec(Len(g.offsets) + 1) \o "\n0000000000 65535 f \n"
            \o XrefEntries(g.offsets, 0, g.pre_offset)
            \o "trailer\n"
            \o "<< /Root 1 0 R /Size " \o Dec(Len(g.offsets) + 1)
            \o " >>\nstartxref\n" \o Dec(xref_start) \o "\n%%EOF\n"]

finalize_pdf(g) ==
    LET xref_start == Len(g.pdf_pre) + Len(g.pdf)
    IN  [g EXCEPT !.pdf = g.pdf
            \o "xref\n"
            \o "0 " \o Dec(Len(g.offsets) + 1) \o "\n0000000000 65535 f \n"
            \o XrefEntries(g.offsets, 0, g.pre_offset)
            \o "trailer\n"
            \o "<< /Root 1 0 R /Size " \o Dec(Len(g.offsets) + 1)
            \o " >>\nstartxref\n" \o Dec(xref_start) \o "\n%%EOF\n"]

\* the generator after initialize_pdf and finalize_pdf, as write_pdf runs them
write_pdf(g) == finalize_pdf(initialize_pdf(g))

\* written_file with the two buffers written in the other order
WrittenPagesFirst(g) == g.pdf \o g.pdf_pre

\* file.write_all(&self.pdf_pre) followed by file.write_all(&self.pdf)
written_file(g) == g.pdf_pre \o g.pdf

add_line(g, x1, y1, x2, y2, width, cap_type) ==
    [g EXCEPT !.content_stream = g.content_stream
        \o Fmt(width) \o " w\n" \o Dec(to_int(cap_type)) \o " J\n"
        \o Fmt(x1) \o " " \o Fmt(y1) \o " m\n"
        \o Fmt(x2) \o " " \o Fmt(y2) \o " l\nS\n"]

add_circle(g, cx, cy, radius) ==
    add_line(g, cx, cy, cx, cy, radius * 2, "Round")

RECURSIVE LinetoText(_)
LinetoText(points) ==
    IF points = <<>> THEN ""
    ELSE Fmt(Head(points)[1]) \o " " \o Fmt(Head(points)[2]) \o " l\n"
         \o LinetoText(Tail(points))

\* add_polygon writing the path as an object of its own at once
AddPolygonAsObject(g, points) ==
    IF points = <<>> THEN g
    ELSE add_object(g, Fmt(points[1][1]) \o " " \o Fmt(points[1][2]) \o " m\n"
                         \o LinetoText(Tail(points)) \o "h f")

add_polygon(g, points) ==
    IF points = <<>> THEN g
    ELSE [g EXCEPT !.content_stream = g.content_stream
            \o Fmt(points[1][1]) \o " " \o Fmt(points[1][2]) \o " m\n"
            \o LinetoText(Tail(points))
            \o "h f\n"]

\* Radian(0.9272952180016123), the f64 next to atan(4/3), in 1e-4 radians;
\* f64::cos and f64::sin of it are the f64 values 0.6 and 0.8
Theta == 9273
Angles == {0, Theta}

\* f64::cos and f64::sin of the modelled rotation angles, in tenths
cos(angle) == CASE angle = 0 -> 10 [] angle = Theta -> 6
sin(angle) == CASE angle = 0 -> 0 [] angle = Theta -> 8

\* product of two f64 values given in tenths
Mul(a, b) == (a * b) \div 10

\* add_rectangle with a translation that leaves out the term -cos*cx
AddRectangleUncentred(g, x, y, width, height, angle) ==
    LET cos_theta == cos(angle)
        sin_theta == sin(angle)
        cx == x + width \div 2
        cy == y + height \div 2
        translate_x == cx + Mul(sin_theta, cy)
        translate_y == cy - Mul(sin_theta, cx) - Mul(cos_theta, cy)
    IN  [g EXCEPT !.content_stream = g.content_stream
            \o Fmt(cos_theta) \o " " \o Fmt(sin_theta) \o " "
            \o FmtNeg(sin_theta) \o " " \o Fmt(cos_theta) \o " "
            \o Fmt(translate_x) \o " " \o Fmt(translate_y) \o " cm\n"
            \o Fmt(x) \o " " \o Fmt(y) \o " "
            \o Fmt(width) \o " " \o Fmt(height) \o " re f\n"]

add_rectangle(g, x, y, width, height, angle) ==
    LET cos_theta == cos(angle)
        sin_theta == sin(angle)
        cx == x + width \div 2
        cy == y + height \div 2
        translate_x == cx - Mul(cos_theta, cx) + Mul(sin_theta, cy)
        translate_y == cy - Mul(sin_theta, cx) - Mul(cos_theta, cy)
    IN  [g EXCEPT !.content_stream = g.content_stream
            \o Fmt(cos_theta) \o " " \o Fmt(sin_theta) \o " "
            \o FmtNeg(sin_theta) \o " " \o Fmt(cos_theta) \o " "
            \o Fmt(translate_x) \o " " \o Fmt(translate_y) \o " cm\n"
            \o Fmt(x) \o " " \o Fmt(y) \o " "
            \o Fmt(width) \o " " \o Fmt(height) \o " re f\n"]

(***************************************************************************)
(* Drawing-operator compiler (src/src/shapes.rs).                          *)
(***************************************************************************)
\* struct Shape; content_stream is Some("gen") when the shape borrows the
\* generator's content stream and None for a detached shape
Shape(enum_type, stream, x, y, width, height, radius, angle, cap_type, color) ==
    [enum_type |-> enum_type, content_stream |-> stream, x |-> x, y |-> y,
     width |-> width, height |-> height, radius |-> radius, angle |-> angle,
     cap_type |-> cap_type, color |-> color]

\* the ShapeType::Line arm of Shape::draw
LineText(shape, width, cap_type) ==
    Fmt(width) \o " w\n" \o Dec(cap_type) \o " J\n"
    \o Fmt(shape.x[1]) \o " " \o Fmt(shape.y[1]) \o " m\n"
    \o Fmt(shape.x[2]) \o " " \o Fmt(shape.y[2]) \o " l\nS\n"

\* CircleText stroking with the resolved width and cap of the shape
CircleTextResolvedStyle(shape, width, cap_type) ==
    Fmt(width) \o " w\n" \o Dec(cap_type) \o " J\n"
    \o Fmt(shape.x[1]) \o " " \o Fmt(shape.y[1]) \o " m\n"
    \o Fmt(shape.x[1]) \o " " \o Fmt(shape.y[1]) \o " l\nS\n"

\* the ShapeType::Circle arm of Shape::draw
CircleText(shape, width, cap_type) ==
    Fmt(unwrap(shape.radius) * 2) \o " w\n1 J\n"
    \o Fmt(shape.x[1]) \o " " \o Fmt(shape.y[1]) \o " m\n"
    \o Fmt(shape.x[1]) \o " " \o Fmt(shape.y[1]) \o " l\nS\n"

\* RectangleText rotating about the page origin: no translation
RectangleTextAboutOrigin(shape) ==
    LET angle == unwrap_or(shape.angle, DEFAULT_ANGLE)
        cos_theta == cos(angle)
        sin_theta == sin(angle)
    IN  Fmt(cos_theta) \o " " \o Fmt(sin_theta) \o " "
        \o FmtNeg(sin_theta) \o " " \o Fmt(cos_theta) \o " "
        \o Fmt(0) \o " " \o Fmt(0) \o " cm\n"
        \o Fmt(shape.x[1]) \o " " \o Fmt(shape.y[1]) \o " "
        \o Fmt(unwrap(shape.width)) \o " "
        \o Fmt(unwrap(shape.height)) \o " re f\n"

\* the ShapeType::Rectangle arm of Shape::draw
RectangleText(shape) ==
    LET angle == unwrap_or(shape.angle, DEFAULT_ANGLE)
        cos_theta == cos(angle)
        sin_theta == sin(angle)
        cx == shape.x[1] + unwrap(shape.width) \div 2
        cy == shape.y[1] + unwrap(shape.height) \div 2
        translate_x == cx - Mul(cos_theta, cx) + Mul(sin_theta, cy)
        translate_y == cy - Mul(sin_theta, cx) - Mul(cos_theta, cy)
    IN  Fmt(cos_theta) \o " " \o Fmt(sin_theta) \o " "
        \o FmtNeg(sin_theta) \o " " \o Fmt(cos_theta) \o " "
        \o Fmt(translate_x) \o " " \o Fmt(translate_y) \o " cm\n"
        \o Fmt(shape.x[1]) \o " " \o Fmt(shape.y[1]) \o " "
        \o Fmt(unwrap(shape.width)) \o " "
        \o Fmt(unwrap(shape.height)) \o " re f\n"

\* the match on enum_type in Shape::draw
ShapeText(shape, width, cap_type) ==
    CASE shape.enum_type = "Line" -> LineText(shape, width, cap_type)
      [] shape.enum_type = "Circle" -> CircleText(shape, width, cap_type)
      [] shape.enum_type = "Rectangle" -> RectangleText(shape)
      [] OTHER -> ""

\* DrawText resolving every style field from the statics alone
DrawTextDefaultsOnly(shape, d) ==
    IF shape.content_stream = None THEN ""
    ELSE Fmt(d.color[1]) \o " " \o Fmt(d.color[2]) \o " " \o Fmt(d.color[3])
         \o " RG\n" \o ShapeText(shape, d.width, to_int(d.cap_type))

\* Shape::draw: the bytes appended to the borrowed content stream; d holds
\* the values read from the three statics
DrawText(shape, d) ==
    IF shape.content_stream = None THEN ""
    ELSE LET rgb == unwrap_or(shape.color, d.color)
             width == unwrap_or(shape.width, d.width)
             cap_type == to_int(unwrap_or(shape.cap_type, d.cap_type))
         IN  Fmt(rgb[1]) \o " " \o Fmt(rgb[2]) \o " " \o Fmt(rgb[3]) \o " RG\n"
             \o ShapeText(shape, width, cap_type)

draw(g, shape, d) ==
    [g EXCEPT !.content_stream = g.content_stream \o DrawText(shape, d)]

(***************************************************************************)
(* Inputs.                                                                 *)
(***************************************************************************)
CustomSizes == {<<Pt(1000), Pt(2005)>>}
LineArgs == {<<Pt(100), Pt(100), Pt(500), Pt(505), Pt(25), "Square">>}
CircleArgs == {<<Pt(200), Pt(200), Pt(55)>>}
RectangleArgs == {<<Pt(100), Pt(200), Pt(300), Pt(400), 0>>}
PolygonArgs == {<<>>, <<<<Pt(0), Pt(0)>>, <<Pt(100), Pt(0)>>, <<Pt(0), Pt(105)>>>>}

Red == <<10, 0, 0>>
Blue == <<0, 0, 10>>
WidthArgs == {Pt(25), Pt(40)}
CapTypeArgs == {"Round"}
ColorArgs == {Red}

Shapes ==
    { Shape("Line", Some("gen"), <<Pt(100), Pt(500)>>, <<Pt(100), Pt(505)>>,
            None, None, None, None, None, None),
      Shape("Line", Some("gen"), <<Pt(100), Pt(500)>>, <<Pt(100), Pt(505)>>,
            Some(Pt(70)), None, None, None, Some("Square"), Some(Blue)),
      Shape("Line", None, <<Pt(100), Pt(500)>>, <<Pt(100), Pt(505)>>,
            None, None, None, None, None, None),
      Shape("Circle", Some("gen"), <<Pt(200)>>, <<Pt(200)>>,
            None, None, Some(Pt(55)), None, None, None),
      Shape("Circle", Some("gen"), <<Pt(200)>>, <<Pt(200)>>,
            Some(Pt(70)), None, Some(Pt(55)), None, Some("Square"), Some(Blue)),
      Shape("Rectangle", Some("gen"), <<Pt(100)>>, <<Pt(200)>>,
            Some(Pt(300)), Some(Pt(400)), None, Some(0), None, Some(Blue)),
      Shape("Polygon", Some("gen"), <<Pt(0), Pt(100), Pt(0)>>,
            <<Pt(0), Pt(0), Pt(105)>>, None, None, None, None, None, None) }

\* rectangles of several origins and sizes, unrotated and rotated by Theta
PlacedRectangleArgs ==
    { <<Pt(100), Pt(200), Pt(300), Pt(400), 0>>,
      <<Pt(20), Pt(30), Pt(10), Pt(40), 0>>,
      <<Pt(100), Pt(200), Pt(300), Pt(400), Theta>>,
      <<Pt(20), Pt(30), Pt(10), Pt(40), Theta>> }

\* generator.rectangle(x, y, width, height), with and without with_angle
RectangleShapes ==
    { Shape("Rectangle", Some("gen"), <<Pt(100)>>, <<Pt(200)>>,
            Some(Pt(300)), Some(Pt(400)), None, None, None, None),
      Shape("Rectangle", Some("gen"), <<Pt(20)>>, <<Pt(30)>>,
            Some(Pt(10)), Some(Pt(40)), None, Some(0), None, Some(Red)),
      Shape("Rectangle", Some("gen"), <<Pt(100)>>, <<Pt(200)>>,
            Some(Pt(300)), Some(Pt(400)), None, Some(Theta), None, None),
      Shape("Rectangle", Some("gen"), <<Pt(20)>>, <<Pt(30)>>,
            Some(Pt(10)), Some(Pt(40)), None, Some(Theta), None, Some(Red)) }

(***************************************************************************)
(* Operations.  A generator is used as src/src/main.rs uses it: pages and  *)
(* shapes first, write_pdf afterwards.                                     *)
(***************************************************************************)
BeforeWrite == writeLog = <<>>

\* the bytes the step appended to the content stream
Appended == SubSeq(content_stream', Len(content_stream) + 1, Len(content_stream'))

LogPage(api, wtext, htext) ==
    pageLog' = Append(pageLog, [api |-> api, width |-> wtext, height |-> htext,
                                ndraws |-> Len(drawLog)])

\* a call of the generator's own shape API; it reads no default
LogCall(api, args) ==
    drawLog' = Append(drawLog, [api |-> api, shape |-> args, text |-> Appended,
                                npages |-> Len(pageLog)])

\* a Shape::draw; the log keeps what had been set as default by then
LogDraw(shape) ==
    drawLog' = Append(drawLog, [api |-> "draw", shape |-> shape, text |-> Appended,
                                npages |-> Len(pageLog), lastSet |-> lastSet,
                                docSet |-> docSet])

PageStep(api, wtext, htext) ==
    /\ BeforeWrite
    /\ Len(pageLog) + Len(drawLog) < MaxOps
    /\ Assign(add_page_with_size(Self, wtext, htext))
    /\ LogPage(api, wtext, htext)
    /\ UNCHANGED <<file, static_vars, drawLog, writeLog, ndefaults, lastSet, doc, docSet>>

AddPageWithSize ==
    \E size \in CustomSizes :
        PageStep("add_page_with_size", Fmt(size[1]), Fmt(size[2]))

AddPageA4 == PageStep("add_page_a4", A4WidthText, A4HeightText)

AddPageLetter == PageStep("add_page_letter", Fmt(Inch(85)), Fmt(Inch(110)))

ShapeStep(api, args, g) ==
    /\ BeforeWrite
    /\ Len(pageLog) + Len(drawLog) < MaxOps
    /\ Assign(g)
    /\ LogCall(api, args)
    /\ UNCHANGED <<file, static_vars, pageLog, writeLog, ndefaults, lastSet, doc, docSet>>

AddLine ==
    \E a \in LineArgs :
        ShapeStep("add_line", a, add_line(Self, a[1], a[2], a[3], a[4], a[5], a[6]))

AddCircle ==
    \E a \in CircleArgs :
        ShapeStep("add_circle", a, add_circle(Self, a[1], a[2], a[3]))

AddRectangle ==
    \E a \in RectangleArgs :
        ShapeStep("add_rectangle", a,
                  add_rectangle(Self, a[1], a[2], a[3], a[4], a[5]))

AddPolygon ==
    \E a \in PolygonArgs :
        ShapeStep("add_polygon", a, add_polygon(Self, a))

\* add_rectangle over the placed rectangles, rotated ones included
AddPlacedRectangle ==
    \E a \in PlacedRectangleArgs :
        ShapeStep("add_rectangle", a,
                  add_rectangle(Self, a[1], a[2], a[3], a[4], a[5]))

\* Shape::draw on a shape built from this generator (or a detached one)
Draw ==
    \E shape \in Shapes :
        /\ BeforeWrite
        /\ Len(pageLog) + Len(drawLog) < MaxOps
        /\ Cardinality({i \in DOMAIN drawLog : drawLog[i].api = "draw"}) < MaxDraws
        /\ Assign(draw(Self, shape, Defaults))
        /\ LogDraw(shape)
        /\ UNCHANGED <<file, static_vars, pageLog, writeLog, ndefaults, lastSet,
                       doc, docSet>>

\* Shape::draw on a rectangle built from this generator
DrawRectangle ==
    \E shape \in RectangleShapes :
        /\ BeforeWrite
        /\ Len(pageLog) + Len(drawLog) < MaxOps
        /\ Cardinality({i \in DOMAIN drawLog : drawLog[i].api = "draw"}) < MaxDraws
        /\ Assign(draw(Self, shape, Defaults))
        /\ LogDraw(shape)
        /\ UNCHANGED <<file, static_vars, pageLog, writeLog, ndefaults, lastSet,
                       doc, docSet>>

WritePdf ==
    /\ Len(writeLog) < MaxWrites
    /\ Assign(write_pdf(Self))
    /\ file' = written_file(write_pdf(Self))
    /\ writeLog' = Append(writeLog, [file |-> file', ndraws |-> Len(drawLog),
                                     npages |-> Len(pageLog)])
    /\ UNCHANGED <<static_vars, pageLog, drawLog, ndefaults, lastSet, doc, docSet>>

SetStep(field, value) ==
    /\ ndefaults < MaxDefaults
    /\ ndefaults' = ndefaults + 1
    /\ lastSet' = [lastSet EXCEPT ![field] = Some(value)]
    /\ docSet' = [docSet EXCEPT ![field] = Some(value)]
    /\ UNCHANGED <<gen_vars, file, pageLog, drawLog, writeLog, doc>>

set_default_width ==
    \E width \in WidthArgs :
        /\ DEFAULT_WIDTH' = width
        /\ UNCHANGED <<DEFAULT_CAP_TYPE, DEFAULT_COLOR>>
        /\ SetStep("width", width)

set_default_cap_type ==
    \E cap_type \in CapTypeArgs :
        /\ DEFAULT_CAP_TYPE' = cap_type
        /\ UNCHANGED <<DEFAULT_WIDTH, DEFAULT_COLOR>>
        /\ SetStep("cap_type", cap_type)

set_default_color ==
    \E color \in ColorArgs :
        /\ DEFAULT_COLOR' = color
        /\ UNCHANGED <<DEFAULT_WIDTH, DEFAULT_CAP_TYPE>>
        /\ SetStep("color", color)

\* Generator::new for the next document of the process; the statics live on
NewGenerator ==
    /\ doc < MaxDocs
    /\ doc' = doc + 1
    /\ Assign(new)
    /\ pageLog' = <<>>
    /\ drawLog' = <<>>
    /\ writeLog' = <<>>
    /\ docSet' = NeverSet
    /\ UNCHANGED <<file, static_vars, ndefaults, lastSet>>

Next ==
    \/ AddPageWithSize
    \/ AddPageA4
    \/ AddPageLetter
    \/ AddLine
    \/ AddCircle
    \/ AddRectangle
    \/ AddPolygon
    \/ WritePdf

Spec == Init /\ [][Next]_vars

\* one document: shapes drawn under changing defaults
NextStyle ==
    \/ AddCircle
    \/ Draw
    \/ set_default_width
    \/ set_default_cap_type
    \/ set_default_color

SpecStyle == Init /\ [][NextStyle]_vars

\* several documents rendered one after the other in the same process
NextRenders ==
    \/ NewGenerator
    \/ Draw
    \/ set_default_width
    \/ set_default_cap_type
    \/ set_default_color

SpecRenders == Init /\ [][NextRenders]_vars

\* one document: rectangles and other shapes placed on its pages
NextPlace ==
    \/ AddPageA4
    \/ AddPlacedRectangle
    \/ AddCircle
    \/ DrawRectangle

SpecPlace == Init /\ [][NextPlace]_vars

(***************************************************************************)
(* Reading a written file back: objects, xref table, trailer.              *)
(***************************************************************************)
Min(S) == CHOOSE m \in S : \A n \in S : m <= n

\* the pattern pat stands in s at the 0-based byte offset off
StartsAt(s, off, pat) ==
    /\ off >= 0
    /\ off + Len(pat) <= Len(s)
    /\ SubSeq(s, off + 1, off + Len(pat)) = pat

\* least 0-based offset >= from at which pat stands in s, or -1
IndexFrom(s, pat, from) ==
    LET hits == {off \in from..(Len(s) - Len(pat)) : StartsAt(s, off, pat)}
    IN  IF hits = {} THEN 0 - 1 ELSE Min(hits)

IsDigit(c) == c \in {Digit(d) : d \in 0..9}
DigitVal(c) == CHOOSE d \in 0..9 : Digit(d) = c

RECURSIVE ParseDec(_)
\* the number a string of decimal digits denotes
ParseDec(s) ==
    IF Len(s) = 0 THEN 0
    ELSE ParseDec(SubSeq(s, 1, Len(s) - 1)) * 10 + DigitVal(SubSeq(s, Len(s), Len(s)))

RECURSIVE DigitRun(_, _)
\* how many decimal digits stand in s from the 0-based offset off on
DigitRun(s, off) ==
    IF off < Len(s) /\ IsDigit(SubSeq(s, off + 1, off + 1))
    THEN 1 + DigitRun(s, off + 1) ELSE 0

\* the decimal number standing in s at off (at least one digit is there)
NumberAt(s, off) == ParseDec(SubSeq(s, off + 1, off + DigitRun(s, off)))

\* 0-based offsets at which a line of f begins
LineStarts(f) ==
    {0} \cup {off \in 1..(Len(f) - 1) : SubSeq(f, off, off) = "\n"}

\* the line that begins at off reads "<n> 0 obj"
IsObjHeader(f, off) ==
    /\ DigitRun(f, off) > 0
    /\ StartsAt(f, off + DigitRun(f, off), " 0 obj\n")

\* the objects of the file as <<offset, object number>>
ObjHeaders(f) ==
    {<<off, NumberAt(f, off)>> : off \in {o \in LineStarts(f) : IsObjHeader(f, o)}}

\* the text between the header line of the object at off and its "endobj"
ObjBody(f, off) ==
    LET from == off + DigitRun(f, off) + Len(" 0 obj\n")
        to == IndexFrom(f, "\nendobj\n", from)
    IN  SubSeq(f, from + 1, to)

\* 0-based offset just behind the object that begins at off
ObjEnd(f, off) ==
    IndexFrom(f, "\nendobj\n", off) + Len("\nendobj\n")

\* 0-based offsets of the lines that read "xref"
XrefStarts(f) == {off \in LineStarts(f) : StartsAt(f, off, "xref\n")}

\* the entry count of the subsection header "0 <count>" of the table at x
XrefCount(f, x) == NumberAt(f, x + Len("xref\n0 "))

\* 0-based offset of entry n (n = 0 is the free-list head) of the table at x
XrefEntryAt(f, x, n) ==
    x + Len("xref\n0 ") + DigitRun(f, x + Len("xref\n0 ")) + 1 + 20 * n

\* the offset field of entry n
XrefOffset(f, x, n) == ParseDec(SubSeq(f, XrefEntryAt(f, x, n) + 1, XrefEntryAt(f, x, n) + 10))

\* the file left by the first write_pdf of the generator
Finalized == Len(writeLog) = 1
FinalFile == writeLog[1].file
FinalXref == Min(XrefStarts(FinalFile))

(***************************************************************************)
(* C1: after one write_pdf, for every object number N >= 1 the offset in   *)
(* the N-th in-use xref entry is the byte position in the written file at  *)
(* which "N 0 obj" begins: every entry points at the header of its object  *)
(* and every object of the file has its entry.                             *)
(***************************************************************************)
XrefOffsetsCorrect ==
    Finalized =>
        LET f == FinalFile
            x == FinalXref
            count == XrefCount(f, x)
            lines == LineStarts(f)
        IN  /\ \A n \in 1..(count - 1) :
                  /\ XrefOffset(f, x, n) \in lines
                  /\ StartsAt(f, XrefOffset(f, x, n), Dec(n) \o " 0 obj\n")
            /\ \A h \in ObjHeaders(f) :
                  /\ h[2] \in 1..(count - 1)
                  /\ XrefOffset(f, x, h[2]) = h[1]

\* a finalized two-page document with shapes: objects 1..6 and their entries
XrefOffsetsWitness ==
    /\ Finalized
    /\ Len(pageLog) = 2
    /\ Len(drawLog) > 0
    /\ XrefCount(FinalFile, FinalXref) = 7
    /\ XrefOffset(FinalFile, FinalXref, 3) > 0

\* 0-based offset of the (first) object numbered n among the headers hs
OffsetIn(hs, n) == Min({h[1] : h \in {g \in hs : g[2] = n}})
ObjOffset(f, n) == OffsetIn(ObjHeaders(f), n)

\* the text of body between the first prefix and the next suffix behind it
Between(body, prefix, suffix) ==
    LET from == IndexFrom(body, prefix, 0) + Len(prefix)
        to == IndexFrom(body, suffix, from)
    IN  SubSeq(body, from + 1, to)

\* the number behind the first occurrence of key in body
NumberBehind(body, key) == NumberAt(body, IndexFrom(body, key, 0) + Len(key))

IsCatalogBody(body) == StartsAt(body, 0, "<< /Type /Catalog ")
IsPagesBody(body) == StartsAt(body, 0, "<< /Type /Pages ")
IsPageBody(body) == StartsAt(body, 0, "<< /Type /Page ")
IsStreamBody(body) ==
    /\ StartsAt(body, 0, "<< /Length ")
    /\ StartsAt(body, Len(body) - Len("\nendstream"), "\nendstream")

RECURSIVE ParseRefs(_, _)
\* the object numbers of the references "n 0 R" standing in s from off on,
\* separated by single spaces
ParseRefs(s, off) ==
    IF DigitRun(s, off) = 0 THEN <<>>
    ELSE LET behind == off + DigitRun(s, off) + Len(" 0 R")
         IN  <<NumberAt(s, off)>>
             \o (IF StartsAt(s, behind, " ") THEN ParseRefs(s, behind + 1) ELSE <<>>)

\* /Kids and /Count of a Pages object
KidsOf(body) == ParseRefs(Between(body, "/Kids [", "]"), 0)
CountOf(body) == NumberBehind(body, "/Count ")

\* /MediaBox and /Contents of a page object
MediaBoxOf(body) == Between(body, "/MediaBox [", "]")
ContentsOf(body) == NumberBehind(body, "/Contents ")

\* the data of a content-stream object
StreamData(body) ==
    LET from == IndexFrom(body, ">>\nstream\n", 0) + Len(">>\nstream\n")
    IN  SubSeq(body, from + 1, Len(body) - Len("\nendstream"))

\* the objects of f whose body satisfies Is, as <<offset, number>>
PageObjects(f) == {h \in ObjHeaders(f) : IsPageBody(ObjBody(f, h[1]))}
StreamObjects(f) == {h \in ObjHeaders(f) : IsStreamBody(ObjBody(f, h[1]))}

(***************************************************************************)
(* C2: after write_pdf the Pages object's /Count is the number of          *)
(* page-adding calls, and /Kids lists exactly the page objects of the      *)
(* file, each once, in the order the pages were added (the k-th kid is the *)
(* page object carrying the MediaBox of the k-th call, and later kids lie  *)
(* further on in the file).                                                *)
(***************************************************************************)
PagesCountAndKids ==
    Finalized =>
        LET f == FinalFile
            hs == ObjHeaders(f)
            body == ObjBody(f, OffsetIn(hs, 2))
            kids == KidsOf(body)
            pageObjs == {h \in hs : IsPageBody(ObjBody(f, h[1]))}
        IN  /\ IsPagesBody(body)
            /\ CountOf(body) = Len(pageLog)
            /\ Len(kids) = Len(pageLog)
            /\ Cardinality(pageObjs) = Len(pageLog)
            /\ {kids[k] : k \in DOMAIN kids} = {h[2] : h \in pageObjs}
            /\ \A k \in DOMAIN kids :
                  /\ MediaBoxOf(ObjBody(f, OffsetIn(hs, kids[k])))
                       = "0 0 " \o pageLog[k].width \o " " \o pageLog[k].height
                  /\ \A j \in 1..(k - 1) :
                        OffsetIn(hs, kids[j]) < OffsetIn(hs, kids[k])

\* two pages of different sizes, listed as objects 3 and 5
PagesCountAndKidsWitness ==
    /\ Finalized
    /\ Len(pageLog) = 2
    /\ pageLog[1].api = "add_page_a4"
    /\ pageLog[2].api = "add_page_letter"
    /\ KidsOf(ObjBody(FinalFile, ObjOffset(FinalFile, 2))) = <<3, 5>>

(***************************************************************************)
(* C4: in the written file the trailer's /Size is the number of objects    *)
(* in the file plus one, it equals the entry count of the xref subsection  *)
(* header and the number of 20-byte entries standing between that header   *)
(* and the trailer; for one page with one line it is 5.                    *)
(***************************************************************************)
TrailerSize(f, x) == NumberAt(f, IndexFrom(f, "/Size ", x) + Len("/Size "))

TrailerSizeCountsObjects ==
    Finalized =>
        LET f == FinalFile
            x == FinalXref
            size == TrailerSize(f, x)
            trailer == IndexFrom(f, "trailer\n", x)
        IN  /\ size = Cardinality(ObjHeaders(f)) + 1
            /\ size = XrefCount(f, x)
            /\ trailer = XrefEntryAt(f, x, size)
            /\ \A n \in 0..(size - 1) :
                  StartsAt(f, XrefEntryAt(f, x, n) + 18, " \n")
            /\ (Len(pageLog) = 1 /\ Len(drawLog) = 1) => size = 5

\* one page with one line: head, catalog, pages, page, content
TrailerSizeWitness ==
    /\ Finalized
    /\ Len(pageLog) = 1
    /\ Len(drawLog) = 1
    /\ drawLog[1].api = "add_line"
    /\ drawLog[1].npages = 1
    /\ TrailerSize(FinalFile, FinalXref) = 5

(***************************************************************************)
(* C5: with at least one page, the written file is the header              *)
(* "%PDF-1.5\n", then object 1 (Catalog), object 2 (Pages), then the page  *)
(* and content-stream objects 3, 4, ... one behind the other, then the     *)
(* xref table, then the trailer; it starts with "%PDF-1.5\n", ends with    *)
(* "%%EOF\n" and is not empty.                                             *)
(***************************************************************************)
FileLayout ==
    (Finalized /\ Len(pageLog) >= 1) =>
        LET f == FinalFile
            x == FinalXref
            hs == ObjHeaders(f)
            count == Cardinality(hs)
            at == [n \in 1..count |-> OffsetIn(hs, n)]
            trailer == IndexFrom(f, "trailer\n", x)
        IN  /\ Len(f) > 0
            /\ StartsAt(f, 0, "%PDF-1.5\n")
            /\ StartsAt(f, Len(f) - Len("%%EOF\n"), "%%EOF\n")
            /\ {h[2] : h \in hs} = 1..count
            /\ at[1] = Len("%PDF-1.5\n")
            /\ IsCatalogBody(ObjBody(f, at[1]))
            /\ IsPagesBody(ObjBody(f, at[2]))
            /\ \A n \in 1..(count - 1) : ObjEnd(f, at[n]) = at[n + 1]
            /\ \A n \in 3..count :
                  \/ IsPageBody(ObjBody(f, at[n]))
                  \/ IsStreamBody(ObjBody(f, at[n]))
            /\ ObjEnd(f, at[count]) = x
            /\ Cardinality(XrefStarts(f)) = 1
            /\ trailer = XrefEntryAt(f, x, XrefCount(f, x))
            /\ StartsAt(f, trailer, "trailer\n<< /Root 1 0 R /Size ")
            /\ IndexFrom(f, "startxref\n", trailer) > trailer

\* a finalized two-page file with a shape on the first page
FileLayoutWitness ==
    /\ Finalized
    /\ Len(pageLog) = 2
    /\ Len(drawLog) = 1
    /\ drawLog[1].npages = 1
    /\ Cardinality(ObjHeaders(FinalFile)) = 6

RECURSIVE TextOfDraws(_, _)
\* the operator text of the logged draws made while k pages existed, in order
TextOfDraws(log, k) ==
    IF log = <<>> THEN ""
    ELSE (IF Head(log).npages = k THEN Head(log).text ELSE "")
         \o TextOfDraws(Tail(log), k)

(***************************************************************************)
(* C3: every page object's /Contents is its own object number plus one,    *)
(* and in the written file that object is a content stream holding exactly *)
(* the operator text of the shapes drawn after the page was begun and      *)
(* before the next page was begun (or before write_pdf), in draw order.    *)
(***************************************************************************)
PageContentsOwnShapes ==
    Finalized =>
        LET f == FinalFile
            hs == ObjHeaders(f)
            kids == KidsOf(ObjBody(f, OffsetIn(hs, 2)))
        IN  \A k \in DOMAIN kids :
                /\ ContentsOf(ObjBody(f, OffsetIn(hs, kids[k]))) = kids[k] + 1
                /\ kids[k] + 1 \in {h[2] : h \in hs}
                /\ IsStreamBody(ObjBody(f, OffsetIn(hs, kids[k] + 1)))
                /\ StreamData(ObjBody(f, OffsetIn(hs, kids[k] + 1)))
                     = TextOfDraws(drawLog, k)

(***************************************************************************)
(* C6: for n >= 0 pages begun, the written file holds exactly n page       *)
(* objects and n content-stream objects, 2 + 2n objects in all, and every  *)
(* content-stream object is the /Contents target of exactly one page.      *)
(***************************************************************************)
StreamPerPage ==
    Finalized =>
        LET f == FinalFile
            hs == ObjHeaders(f)
            pageObjs == {h \in hs : IsPageBody(ObjBody(f, h[1]))}
            streamObjs == {h \in hs : IsStreamBody(ObjBody(f, h[1]))}
        IN  /\ Cardinality(pageObjs) = Len(pageLog)
            /\ Cardinality(streamObjs) = Len(pageLog)
            /\ Cardinality(hs) = 2 + 2 * Len(pageLog)
            /\ \A st \in streamObjs :
                  Cardinality({pg \in pageObjs :
                                  ContentsOf(ObjBody(f, pg[1])) = st[2]}) = 1

(***************************************************************************)
(* C7: a shape drawn while no page has been begun is not accumulated: as   *)
(* long as the generator has no page, its content stream stays empty.      *)
(***************************************************************************)
NoPageNoOperators == (pages = <<>>) => (content_stream = "")

(***************************************************************************)
(* Reading emitted operator text back.                                     *)
(***************************************************************************)
RECURSIVE TextLines(_)
\* the lines of t, each without its terminating "\n"
TextLines(t) ==
    IF Len(t) = 0 THEN <<>>
    ELSE LET nl == IndexFrom(t, "\n", 0)
         IN  IF nl < 0 THEN <<t>>
             ELSE <<SubSeq(t, 1, nl)>> \o TextLines(SubSeq(t, nl + 2, Len(t)))

\* the line is "<operands> <op>"
HasOperator(line, op) ==
    StartsAt(line, Len(line) - Len(op) - 1, " " \o op)

\* the operand texts of the operators op of t, in order
OperandsOf(t, op) ==
    LET lines == TextLines(t)
        operands(line) == SubSeq(line, 1, Len(line) - Len(op) - 1)
    IN  [k \in 1..Len(SelectSeq(lines, LAMBDA line : HasOperator(line, op))) |->
            operands(SelectSeq(lines, LAMBDA line : HasOperator(line, op))[k])]

ColorText(rgb) == Fmt(rgb[1]) \o " " \o Fmt(rgb[2]) \o " " \o Fmt(rgb[3])

\* the value a style field takes given the shape's override, the value last
\* set as default (if any) and the baseline
Resolved(override, set, baseline) == unwrap_or(override, unwrap_or(set, baseline))

\* the logged draws made through Shape::draw on a shape that borrows the
\* generator's content stream
ShapeDraws == {i \in DOMAIN drawLog : /\ drawLog[i].api = "draw"
                                      /\ drawLog[i].shape.content_stream # None}

\* the colour operator of draw e, and for a line its width and cap
\* operators too, carry the value that the shape's override, else the given
\* set defaults, else the baseline give
LineStyleFollows(e, set) ==
    /\ OperandsOf(e.text, "RG")
         = <<ColorText(Resolved(e.shape.color, set.color, BaselineColor))>>
    /\ e.shape.enum_type = "Line" =>
          /\ OperandsOf(e.text, "w")
               = <<Fmt(Resolved(e.shape.width, set.width, BaselineWidth))>>
          /\ OperandsOf(e.text, "J")
               = <<Dec(to_int(Resolved(e.shape.cap_type, set.cap_type,
                                       BaselineCapType)))>>

(***************************************************************************)
(* C8: renders of one process are independent: the style operators of a    *)
(* draw follow the overrides of the shape and the defaults set for its own *)
(* document only, a new document starting from the baseline.               *)
(***************************************************************************)
RendersIndependent ==
    \A i \in ShapeDraws : LineStyleFollows(drawLog[i], drawLog[i].docSet)

(***************************************************************************)
(* C9 as stated: for every drawn shape and each of width, cap style and    *)
(* colour, the value in the emitted operators (the operand of every w, J   *)
(* and RG operator of the draw) is the override, else the most recent      *)
(* set-default before the draw, else the baseline.                         *)
(***************************************************************************)
EveryShapeStyleResolved ==
    \A i \in ShapeDraws :
        LET e == drawLog[i]
        IN  /\ \A k \in DOMAIN OperandsOf(e.text, "RG") :
                  OperandsOf(e.text, "RG")[k]
                    = ColorText(Resolved(e.shape.color, e.lastSet.color, BaselineColor))
            /\ \A k \in DOMAIN OperandsOf(e.text, "w") :
                  OperandsOf(e.text, "w")[k]
                    = Fmt(Resolved(e.shape.width, e.lastSet.width, BaselineWidth))
            /\ \A k \in DOMAIN OperandsOf(e.text, "J") :
                  OperandsOf(e.text, "J")[k]
                    = Dec(to_int(Resolved(e.shape.cap_type, e.lastSet.cap_type,
                                          BaselineCapType)))

RECURSIVE TextOfLog(_)
\* the operator text of all logged draws, in order
TextOfLog(log) ==
    IF log = <<>> THEN "" ELSE Head(log).text \o TextOfLog(Tail(log))

(***************************************************************************)
(* C9 amended: for every drawn shape the colour, and for every drawn line  *)
(* also the width and the cap style, in the emitted operators is the       *)
(* override when set, else the most recent set-default executed before the *)
(* draw, else the baseline (width 1, cap butt, colour black); a circle's   *)
(* width and cap are not style fields of this rule.  A set-default after a *)
(* draw leaves the emitted operators as they were: the content stream is   *)
(* the text of the draws as each was emitted.                              *)
(***************************************************************************)
LineStyleResolvedAtDraw ==
    /\ \A i \in ShapeDraws : LineStyleFollows(drawLog[i], drawLog[i].lastSet)
    /\ BeforeWrite => content_stream = TextOfLog(drawLog)

\* a line without overrides drawn between two set_default_width calls: it
\* keeps the width of the first call
LineStyleWitness ==
    /\ Len(drawLog) = 1
    /\ drawLog[1].api = "draw"
    /\ drawLog[1].shape.enum_type = "Line"
    /\ drawLog[1].shape.content_stream # None
    /\ drawLog[1].shape.width = None
    /\ drawLog[1].lastSet.width = Some(Pt(25))
    /\ lastSet.width = Some(Pt(40))
    /\ OperandsOf(content_stream, "w") = <<"2.5">>

\* the logged circles: Shape::draw on a circle, or Generator::add_circle;
\* each as <<index, cx, cy, radius>>
CircleDraws ==
    {<<i, drawLog[i].shape.x[1], drawLog[i].shape.y[1], unwrap(drawLog[i].shape.radius)>> :
        i \in {j \in ShapeDraws : drawLog[j].shape.enum_type = "Circle"}}
    \cup
    {<<i, drawLog[i].shape[1], drawLog[i].shape[2], drawLog[i].shape[3]>> :
        i \in {j \in DOMAIN drawLog : drawLog[j].api = "add_circle"}}

(***************************************************************************)
(* C10: for every circle with centre (cx, cy) and radius r, whatever the   *)
(* overrides and defaults, the emitted operators set the line width to     *)
(* 2*r and the cap to round (1) and stroke a path that moves to (cx, cy)   *)
(* and draws a line to (cx, cy).                                           *)
(***************************************************************************)
CircleIsRoundCapDot ==
    \A c \in CircleDraws :
        LET t == drawLog[c[1]].text
            lines == TextLines(t)
        IN  /\ OperandsOf(t, "w") = <<Fmt(2 * c[4])>>
            /\ OperandsOf(t, "J") = <<"1">>
            /\ OperandsOf(t, "m") = <<Fmt(c[2]) \o " " \o Fmt(c[3])>>
            /\ OperandsOf(t, "l") = <<Fmt(c[2]) \o " " \o Fmt(c[3])>>
            /\ lines[Len(lines)] = "S"

\* a circle with width and cap overrides, drawn when the default width and
\* cap were changed too
CircleWitness ==
    \E i \in ShapeDraws :
        /\ drawLog[i].shape.enum_type = "Circle"
        /\ drawLog[i].shape.width = Some(Pt(70))
        /\ drawLog[i].shape.cap_type = Some("Square")
        /\ drawLog[i].lastSet.width # None
        /\ drawLog[i].lastSet.cap_type # None
        /\ OperandsOf(drawLog[i].text, "w") = <<"11">>

(***************************************************************************)
(* Reading operands back as numbers.                                       *)
(***************************************************************************)
RECURSIVE Words(_)
\* the words of s, separated by single spaces
Words(s) ==
    IF Len(s) = 0 THEN <<>>
    ELSE LET sp == IndexFrom(s, " ", 0)
         IN  IF sp < 0 THEN <<s>>
             ELSE <<SubSeq(s, 1, sp)>> \o Words(SubSeq(s, sp + 2, Len(s)))

\* the number a decimal text with at most one fraction digit denotes, in
\* tenths; "-0" denotes 0
ParseTenths(s) ==
    LET neg == StartsAt(s, 0, "-")
        body == IF neg THEN SubSeq(s, 2, Len(s)) ELSE s
        whole == DigitRun(body, 0)
        frac == IF StartsAt(body, whole, ".")
                THEN DigitVal(SubSeq(body, whole + 2, whole + 2)) ELSE 0
        v == NumberAt(body, 0) * 10 + frac
    IN  IF neg THEN 0 - v ELSE v

\* the operands of one operator as numbers, in tenths
Numbers(s) == [k \in 1..Len(Words(s)) |-> ParseTenths(Words(s)[k])]

\* the logged rectangles: Shape::draw on a rectangle, or
\* Generator::add_rectangle; each as <<index, x, y, width, height, angle>>
RectangleDraws ==
    {<<i, drawLog[i].shape.x[1], drawLog[i].shape.y[1],
       unwrap(drawLog[i].shape.width), unwrap(drawLog[i].shape.height),
       unwrap_or(drawLog[i].shape.angle, 0)>> :
        i \in {j \in ShapeDraws : drawLog[j].shape.enum_type = "Rectangle"}}
    \cup
    {<<i, drawLog[i].shape[1], drawLog[i].shape[2], drawLog[i].shape[3],
       drawLog[i].shape[4], drawLog[i].shape[5]>> :
        i \in {j \in DOMAIN drawLog : drawLog[j].api = "add_rectangle"}}

(***************************************************************************)
(* C11: a rectangle drawn with angle 0, whatever its origin, width and     *)
(* height, emits one transform whose six numbers are those of the identity *)
(* matrix (1 0 0 1 0 0) and directly behind it one fill-rectangle operator *)
(* whose four arguments are the unrotated x, y, width and height.          *)
(***************************************************************************)
UnrotatedRectangleIsIdentity ==
    \A r \in RectangleDraws :
        (r[6] = 0) =>
            LET t == drawLog[r[1]].text
                lines == TextLines(t)
            IN  /\ Len(OperandsOf(t, "cm")) = 1
                /\ Numbers(OperandsOf(t, "cm")[1]) = <<10, 0, 0, 10, 0, 0>>
                /\ Len(OperandsOf(t, "re f")) = 1
                /\ Numbers(OperandsOf(t, "re f")[1]) = <<r[2], r[3], r[4], r[5]>>
                /\ Len(lines) >= 2
                /\ HasOperator(lines[Len(lines) - 1], "cm")
                /\ HasOperator(lines[Len(lines)], "re f")

\* two unrotated rectangles of different origin and size, one through
\* add_rectangle and one through Shape::draw without with_angle
UnrotatedRectangleWitness ==
    /\ \E r \in RectangleDraws :
          /\ drawLog[r[1]].api = "add_rectangle"
          /\ r[6] = 0
          /\ drawLog[r[1]].text = "1 0 -0 1 0 0 cm\n2 3 1 4 re f\n"
    /\ \E r \in RectangleDraws :
          /\ drawLog[r[1]].api = "draw"
          /\ drawLog[r[1]].shape.angle = None
          /\ OperandsOf(drawLog[r[1]].text, "re f") = <<"10 20 30 40">>

\* the logged polygons: Shape::draw on a polygon, or Generator::add_polygon;
\* each as <<index, vertices>>
PolygonDraws ==
    {<<i, [k \in DOMAIN drawLog[i].shape.x |->
              <<drawLog[i].shape.x[k], drawLog[i].shape.y[k]>>]>> :
        i \in {j \in ShapeDraws : drawLog[j].shape.enum_type = "Polygon"}}
    \cup
    {<<i, drawLog[i].shape>> :
        i \in {j \in DOMAIN drawLog : drawLog[j].api = "add_polygon"}}

\* "x y" as the operators print a vertex
VertexText(v) == Fmt(v[1]) \o " " \o Fmt(v[2])

(***************************************************************************)
(* C12: drawing a polygon of k >= 1 vertices appends one moveto for the    *)
(* first vertex, one lineto for each further vertex in the given order and *)
(* then one "h f", and no other path or painting operator (a colour        *)
(* operator may stand in front); drawing a polygon of zero vertices        *)
(* appends nothing.                                                        *)
(***************************************************************************)
PolygonPathEmitted ==
    \A p \in PolygonDraws :
        LET t == drawLog[p[1]].text
            path == SelectSeq(TextLines(t), LAMBDA line : ~HasOperator(line, "RG"))
        IN  IF p[2] = <<>> THEN t = ""
            ELSE path = <<VertexText(p[2][1]) \o " m">>
                        \o [k \in 1..(Len(p[2]) - 1) |-> VertexText(p[2][k + 1]) \o " l"]
                        \o <<"h f">>

(***************************************************************************)
(* C13: the page list holds 3, 5, 7, ...: the k-th page added is object    *)
(* 2k+1.  In the written file the objects from 3 on are numbered 3, 4, ... *)
(* without gap or reuse behind the Catalog (1) and the Pages object (2),   *)
(* their byte offsets grow with the object number, object 2k+1 is the page *)
(* object of the k-th page-adding call, object 2k+2 is a content stream    *)
(* and the /Contents of that page, and it lies before the page object of   *)
(* page k+1.                                                               *)
(***************************************************************************)
ObjectsNumberedInOrder ==
    /\ \A k \in DOMAIN pages : pages[k] = 2 * k + 1
    /\ Finalized =>
        LET f == FinalFile
            hs == ObjHeaders(f)
            count == Cardinality(hs)
            at == [n \in 1..count |-> OffsetIn(hs, n)]
        IN  /\ {h[2] : h \in hs} = 1..count
            /\ IsCatalogBody(ObjBody(f, at[1]))
            /\ IsPagesBody(ObjBody(f, at[2]))
            /\ \A n \in 2..(count - 1) : at[n] < at[n + 1]
            /\ count >= 2 + 2 * Len(pageLog)
            /\ \A k \in DOMAIN pageLog :
                  /\ IsPageBody(ObjBody(f, at[2 * k + 1]))
                  /\ MediaBoxOf(ObjBody(f, at[2 * k + 1]))
                       = "0 0 " \o pageLog[k].width \o " " \o pageLog[k].height
                  /\ ContentsOf(ObjBody(f, at[2 * k + 1])) = 2 * k + 2
                  /\ IsStreamBody(ObjBody(f, at[2 * k + 2]))
                  /\ (k < Len(pageLog)) => at[2 * k + 2] < at[2 * k + 3]

\* a finalized two-page document with a shape drawn before the first page:
\* pages 3 and 5, streams 4 and 6
ObjectsNumberedWitness ==
    /\ Finalized
    /\ pages = <<3, 5>>
    /\ Len(drawLog) = 1
    /\ drawLog[1].npages = 0
    /\ IsStreamBody(ObjBody(FinalFile, ObjOffset(FinalFile, 6)))
    /\ ObjOffset(FinalFile, 4) < ObjOffset(FinalFile, 5)

\* the number written on the line behind the first "startxref" from x on
StartXref(f, x) == NumberAt(f, IndexFrom(f, "startxref\n", x) + Len("startxref\n"))

\* the object number /Root of the trailer behind x refers to
TrailerRoot(f, x) == NumberAt(f, IndexFrom(f, "/Root ", x) + Len("/Root "))

(***************************************************************************)
(* C14: in the written file the number behind "startxref" is the byte      *)
(* position of the "xref" keyword in the file, which is the length of      *)
(* pdf_pre plus the length pdf had before the table was appended, and the  *)
(* trailer's /Root refers to object 1, which is the Catalog.               *)
(***************************************************************************)
StartXrefAndRoot ==
    Finalized =>
        LET f == FinalFile
            x == FinalXref
        IN  /\ StartsAt(f, x, "xref\n")
            /\ StartXref(f, x) = x
            /\ x = Len(pdf_pre) + Min(XrefStarts(pdf))
            /\ StartsAt(f, IndexFrom(f, "startxref\n", x) + Len("startxref\n"),
                        Dec(x) \o "\n%%EOF\n")
            /\ TrailerRoot(f, x) = 1
            /\ IsCatalogBody(ObjBody(f, ObjOffset(f, 1)))

\* a finalized document with a page and a shape: the table lies behind the
\* objects of both buffers
StartXrefWitness ==
    /\ Finalized
    /\ Len(pageLog) >= 1
    /\ Len(drawLog) >= 1
    /\ StartXref(FinalFile, FinalXref) > Len(pdf_pre)
    /\ Min(XrefStarts(pdf)) > 0

(***************************************************************************)
(* C15: every line of the xref table is 20 bytes: a 10-digit offset, a     *)
(* space, a 5-digit generation, a space, the flag, a space and a newline.  *)
(* The entry of object 0 is "0000000000 65535 f"; the entry of every       *)
(* object written to the file (1..N) has generation 00000 and flag n.      *)
(***************************************************************************)
XrefLinesFixedFormat ==
    Finalized =>
        LET f == FinalFile
            x == FinalXref
            count == XrefCount(f, x)
            entry(n) == SubSeq(f, XrefEntryAt(f, x, n) + 1, XrefEntryAt(f, x, n) + 20)
        IN  /\ entry(0) = "0000000000 65535 f \n"
            /\ count = Cardinality(ObjHeaders(f)) + 1
            /\ StartsAt(f, XrefEntryAt(f, x, count), "trailer\n")
            /\ \A n \in 0..(count - 1) :
                  /\ Len(entry(n)) = 20
                  /\ DigitRun(entry(n), 0) = 10
                  /\ SubSeq(entry(n), 11, 11) = " "
                  /\ DigitRun(entry(n), 11) = 5
                  /\ SubSeq(entry(n), 17, 17) = " "
                  /\ SubSeq(entry(n), 18, 18) \in {"n", "f"}
                  /\ SubSeq(entry(n), 19, 20) = " \n"
            /\ \A h \in ObjHeaders(f) :
                  SubSeq(entry(h[2]), 11, 20) = " 00000 n \n"

\* a finalized two-page document: object 3 stands at offset 0 of pdf and
\* objects 4..6 behind it
XrefLinesWitness ==
    /\ Finalized
    /\ Len(pageLog) = 2
    /\ offsets[3] = 0
    /\ XrefCount(FinalFile, FinalXref) = 7
    /\ XrefOffset(FinalFile, FinalXref, 3) = Len(pdf_pre)

(***************************************************************************)
(* C16: for every rectangle drawn, at any of the angles and for every      *)
(* origin, width and height, the emitted transform a b c d tx ty is a      *)
(* rotation matrix (a = d, c = -b, a*a + b*b = 1, and it is the identity   *)
(* exactly when the angle is 0) that maps the rectangle's centre           *)
(* (x + w/2, y + h/2) to itself: a*cx + c*cy + tx = cx and                 *)
(* b*cx + d*cy + ty = cy.                                                  *)
(***************************************************************************)
RotationAboutCentre ==
    \A r \in RectangleDraws :
        LET t == drawLog[r[1]].text
            m == Numbers(OperandsOf(t, "cm")[1])
            cx == r[2] + r[4] \div 2
            cy == r[3] + r[5] \div 2
        IN  /\ Len(OperandsOf(t, "cm")) = 1
            /\ Len(m) = 6
            /\ m[1] = m[4]
            /\ m[3] = 0 - m[2]
            /\ m[1] * m[1] + m[2] * m[2] = 10 * 10
            /\ (r[6] = 0) <=> (m[1] = 10 /\ m[2] = 0)
            /\ m[1] * cx + m[3] * cy + 10 * m[5] = 10 * cx
            /\ m[2] * cx + m[4] * cy + 10 * m[6] = 10 * cy

\* two rotated rectangles of different centres, one through Shape::draw
\* with with_angle and one through add_rectangle
RotationAboutCentreWitness ==
    /\ \E r \in RectangleDraws :
          /\ drawLog[r[1]].api = "draw"
          /\ r[6] = Theta
          /\ OperandsOf(drawLog[r[1]].text, "cm") = <<"0.6 0.8 -0.8 0.6 42 -4">>
    /\ \E r \in RectangleDraws :
          /\ drawLog[r[1]].api = "add_rectangle"
          /\ r[6] = Theta
          /\ OperandsOf(drawLog[r[1]].text, "cm") = <<"0.6 0.8 -0.8 0.6 5 0">>

\* 0-based offsets of the lines of f that read "%PDF-1.5"
HeaderStarts(f) == {off \in LineStarts(f) : StartsAt(f, off, "%PDF-1.5\n")}

(***************************************************************************)
(* C17: after a second write_pdf on the same generator the written file is *)
(* the file of the first call with one more xref table and trailer behind  *)
(* it: the first file is a prefix of the second, the second holds two      *)
(* tables, and it holds no header and no object beyond those of the first. *)
(***************************************************************************)
SecondWriteAppendsTableOnly ==
    (Len(writeLog) = 2) =>
        LET f1 == writeLog[1].file
            f2 == writeLog[2].file
        IN  /\ StartsAt(f2, 0, f1)
            /\ Cardinality(XrefStarts(f2)) = 2
            /\ Cardinality(HeaderStarts(f2)) = Cardinality(HeaderStarts(f1))
            /\ Cardinality(ObjHeaders(f2)) = Cardinality(ObjHeaders(f1))

\* s is a prefix of t (byte strings, or sequences)
IsPrefix(s, t) == Len(s) <= Len(t) /\ SubSeq(t, 1, Len(s)) = s

\* one step on a generator that has not been finalized before it
AppendOnlyStep ==
    BeforeWrite =>
        /\ IsPrefix(pdf, pdf')
        /\ IsPrefix(pdf_pre, pdf_pre')
        /\ IsPrefix(pages, pages')
        /\ Len(offsets') >= Len(offsets)
        /\ \A i \in (N_OBJ_RESERVED + 1)..Len(offsets) : offsets'[i] = offsets[i]
        /\ (\E i \in 1..N_OBJ_RESERVED : offsets'[i] # offsets[i])
              => Len(writeLog') = Len(writeLog) + 1
        /\ (drawLog' # drawLog)
              => UNCHANGED <<pdf, pdf_pre, offsets, pre_offset, pages>>

(***************************************************************************)
(* C18: in every step up to and including the first write_pdf the buffers  *)
(* pdf and pdf_pre and the page list only grow at their end, the offset    *)
(* recorded for an object numbered 3 or higher stays as it is, the offsets *)
(* of objects 1 and 2 change only in write_pdf, and a step that draws a    *)
(* shape leaves pdf, pdf_pre, offsets, pre_offset and pages unchanged.     *)
(***************************************************************************)
AppendOnly == [][AppendOnlyStep]_vars

\* a finalized two-page document with a shape: the offsets of Catalog and
\* Pages were assigned by write_pdf, those of objects 3.. before it
AppendOnlyWitness ==
    /\ Finalized
    /\ Len(pages) = 2
    /\ Len(drawLog) >= 1
    /\ offsets[1] = Len("%PDF-1.5\n")
    /\ offsets[2] > offsets[1]
    /\ offsets[3] = 0
    /\ Len(offsets) = 6

(***************************************************************************)
(* The current transformation matrix of a content stream, as a PDF reader  *)
(* keeps it.  A matrix is a b c d e f with every entry scaled by 10^n.     *)
(***************************************************************************)
IdentityMatrix == [a |-> 1, b |-> 0, c |-> 0, d |-> 1, e |-> 0, f |-> 0, n |-> 0]

RECURSIVE Pow10(_)
Pow10(n) == IF n = 0 THEN 1 ELSE 10 * Pow10(n - 1)

RECURSIVE Reduced(_)
\* the same matrix at the least scale
Reduced(M) ==
    IF M.n > 0 /\ \A v \in {M.a, M.b, M.c, M.d, M.e, M.f} : v % 10 = 0
    THEN Reduced([a |-> M.a \div 10, b |-> M.b \div 10, c |-> M.c \div 10,
                  d |-> M.d \div 10, e |-> M.e \div 10, f |-> M.f \div 10,
                  n |-> M.n - 1])
    ELSE M

\* the matrix the operands of one cm operator denote
MatrixOf(operands) ==
    LET m == Numbers(operands)
    IN  Reduced([a |-> m[1], b |-> m[2], c |-> m[3], d |-> m[4], e |-> m[5],
                 f |-> m[6], n |-> 1])

\* the matrix product M x C: what "M cm" makes of the current matrix C
Concat(M, C) ==
    Reduced([a |-> M.a * C.a + M.b * C.c,
             b |-> M.a * C.b + M.b * C.d,
             c |-> M.c * C.a + M.d * C.c,
             d |-> M.c * C.b + M.d * C.d,
             e |-> M.e * C.a + M.f * C.c + C.e * Pow10(M.n),
             f |-> M.e * C.b + M.f * C.d + C.f * Pow10(M.n),
             n |-> M.n + C.n])

\* the line is a painting operator: a stroke, or a fill ("re f", "h f")
IsPainting(line) == line = "S" \/ HasOperator(line, "f")

\* the transform of the shape painted by line k: the cm emitted with it
OwnTransform(lines, k) ==
    IF k > 1 /\ HasOperator(lines[k - 1], "cm")
    THEN MatrixOf(SubSeq(lines[k - 1], 1, Len(lines[k - 1]) - Len(" cm")))
    ELSE IdentityMatrix

RECURSIVE PlacedAlone(_, _, _, _)
\* from line k on, with current matrix ctm and the stack of saved matrices,
\* every painting operator finds the transform of its own shape in effect
PlacedAlone(lines, k, ctm, saved) ==
    IF k > Len(lines) THEN TRUE
    ELSE CASE HasOperator(lines[k], "cm") ->
                PlacedAlone(lines, k + 1,
                            Concat(MatrixOf(SubSeq(lines[k], 1, Len(lines[k]) - Len(" cm"))),
                                   ctm),
                            saved)
           [] lines[k] = "q" -> PlacedAlone(lines, k + 1, ctm, <<ctm>> \o saved)
           [] lines[k] = "Q" /\ saved # <<>> ->
                PlacedAlone(lines, k + 1, Head(saved), Tail(saved))
           [] IsPainting(lines[k]) ->
                /\ ctm = OwnTransform(lines, k)
                /\ PlacedAlone(lines, k + 1, ctm, saved)
           [] OTHER -> PlacedAlone(lines, k + 1, ctm, saved)

(***************************************************************************)
(* C19: in the content stream of a page, the current transformation matrix *)
(* in effect at the painting operator of every shape is the transform of   *)
(* that shape alone (the identity for a line, circle or polygon): the      *)
(* transform of a rectangle does not reach the shapes drawn after it.      *)
(***************************************************************************)
ShapesPlacedIndependently ==
    PlacedAlone(TextLines(content_stream), 1, IdentityMatrix, <<>>)

\* the operands of the last operator op of t, or initial when t has none
LastOperand(t, op, initial) ==
    LET o == OperandsOf(t, op)
    IN  IF o = <<>> THEN initial ELSE o[Len(o)]

\* the colour of a content stream's initial graphics state: black, for
\* stroking and for filling alike
InitialColorText == "0 0 0"

(***************************************************************************)
(* C20: for every shape drawn, the colour resolved for it (its override,   *)
(* else the default in force) is the colour in effect at the operator that *)
(* paints it: the stroking colour (last RG) at a stroke S, the             *)
(* non-stroking colour (last rg) at a fill f.                              *)
(***************************************************************************)
PaintedWithResolvedColor ==
    \A i \in ShapeDraws :
        LET e == drawLog[i]
            stream == TextOfLog(SubSeq(drawLog, 1, i))
            lines == TextLines(e.text)
            color == ColorText(Resolved(e.shape.color, e.lastSet.color, BaselineColor))
        IN  /\ (\E k \in DOMAIN lines : lines[k] = "S")
                  => LastOperand(stream, "RG", InitialColorText) = color
            /\ (\E k \in DOMAIN lines : HasOperator(lines[k], "f"))
                  => LastOperand(stream, "rg", InitialColorText) = color
====
